---- MODULE Spec2Model ----
(***************************************************************************)
(* Model of the session pool of src/src/session_pool.rs.                   *)
(*                                                                         *)
(* The pool is a worker thread that runs two cooperative tasks on one      *)
(* LocalExecutor: the command loop (lines 91-142) and the creation loop    *)
(* (lines 152-181).  A task runs without interruption until it awaits      *)
(* something that is not ready: a channel recv, the transport, a Timer.    *)
(* The Mutex guards are dropped at the end of the statement that takes     *)
(* them and are never held across another await, so lock().await never     *)
(* suspends; send on an unbounded channel never suspends either.  Each     *)
(* action below is the code between two suspension points.  A Timer        *)
(* backoff and the transport call that follows it are one step: the step   *)
(* that receives the response of attempt n also sleeps and issues attempt  *)
(* n+1 (nothing shared is touched in between).                             *)
(***************************************************************************)
EXTENDS Integers, Sequences, FiniteSets, TLC

\* ---------------------------------------------------------------- bounds
NumCallers == 2        \* callers using the pool handle
MaxSessionsCeiling == 2 \* max_sessions is drawn from 1..MaxSessionsCeiling
TickSecs == 300        \* the clock advances in steps of this many seconds
MaxTicks == 2          \* the clock stops after this many steps
MaxDemand == 2         \* requests and demand signals that may be outstanding
MaxCancels == 1        \* get() futures dropped while pending, in total
MaxCloseCalls == 2     \* close() calls, in total
MaxFaults == 2         \* transport errors the service answers with, in total
StartCallsCap == 2     \* start_calls saturates here (observation only)
GetCallsCap == 2       \* get_calls saturates here (observation only)

\* ------------------------------------------------------ program constants
U16Max == 65535                      \* AtomicU16 / max_sessions: u16
SessionLifetimeSecs == 10 * 60       \* Session::is_valid
RetryLimit == 10                     \* `tries > 10`
BackoffUnitMs == 75                  \* tries * tries * 75

Callers == 1..NumCallers
Tokens == 1..(MaxSessionsCeiling + 1)

VARIABLES
    max_sessions,          \* SessionPool::new parameter
    now,                   \* the monotonic clock (Instant), in seconds
    commands,              \* the unbounded PoolCommand channel (sender/receiver)
    sessions,              \* VecDeque<Session>: index 1 is the front, Len the back
    session_requests,      \* VecDeque<Sender<Session>>: index 1 front, Len back
    active_session_count,  \* AtomicU16
    session_create_request,\* number of () signals queued in the demand channel
    command_task,          \* position of the command loop
    create_task,           \* position of the creation loop
    caller,                \* per caller: what it is doing and the session it holds
    closer,                \* SessionPool.closer: "Some" or "None" (Option taken)
    closer_executor,       \* the PoolEndFuture handed to executor.run
    worker_running,        \* executor.run has not returned
    \* the environment
    fault_budget,          \* transport errors the service may still answer with
    cancels,               \* get() futures dropped so far
    close_calls,           \* close() calls made
    \* observations (written, never read by the program)
    observe,               \* which of round_trip / received / transport are recorded
    close_fired,           \* PoolEndFuture::close executions
    start_calls,           \* start_session transport calls, saturating
    get_calls,             \* get() calls, saturating
    received,              \* per caller: the session its last get() returned
    round_trip,            \* per caller: the give_back-then-get in progress
    last_command,          \* the give_back issued last, if no command followed
    answered               \* the transport answer received last

vars == <<max_sessions, now, commands, sessions, session_requests,
          active_session_count, session_create_request, command_task,
          create_task, caller, closer, closer_executor, worker_running,
          fault_budget, cancels, close_calls, observe, close_fired,
          start_calls, get_calls, received, round_trip, last_command,
          answered>>

\* what an action of the caller domain leaves alone in the worker domain
worker_vars == <<sessions, session_requests, active_session_count,
                 session_create_request, command_task, create_task,
                 closer_executor, worker_running, fault_budget, start_calls,
                 answered>>

\* ------------------------------------------------------------- data model
NoSession == [id |-> 0, created_on_instant |-> 0]
NoSender == [c |-> 0, gen |-> 0]

\* Session::new: the token and Instant::now()
SessionNew(session_id) == [id |-> session_id, created_on_instant |-> now]

\* Session::is_valid, evaluated at clock value t
is_valid_at(session, t) == (t - session.created_on_instant) < SessionLifetimeSecs

is_valid_for_ten_hours(session) ==
    (now - session.created_on_instant) < 10 * 60 * 60

is_valid(session) == is_valid_at(session, now)

\* PoolCommand
Request(sender) == [type |-> "Request", sender |-> sender, session |-> NoSession]
Return(session) == [type |-> "Return", sender |-> NoSender, session |-> session]

\* VecDeque operations used by the code
push_front(q, x) == <<x>> \o q
back(q) == q[Len(q)]
pop_back(q) == SubSeq(q, 1, Len(q) - 1)

Min(a, b) == IF a < b THEN a ELSE b
saturating_sub_leaves_count(a) == a
saturating_add(a) == Min(a + 1, U16Max)
saturating_sub(a) == IF a = 0 THEN 0 ELSE a - 1

Range(q) == {q[i] : i \in 1..Len(q)}

\* A reply channel bounded(1): its receiver is alive while the caller that made
\* it is still awaiting that very get().
ReceiverAlive(sender, cl) ==
    /\ sender.c \in Callers
    /\ cl[sender.c].state = "waiting"
    /\ cl[sender.c].gen = sender.gen

\* The receiving get() resumes with the session.
Deliver(cl, sender, session) ==
    [cl EXCEPT ![sender.c].state = "holding", ![sender.c].session = session]

\* ------------------------------------------------------------ the helpers
\* try_send_session_to_session_requesters (lines 334-362): pops the back of the
\* idle store and the back of the waiter store pairwise; a failed try_send puts
\* the session at the front of the idle store and goes on with the next of
\* both; when no sender is left the session in hand goes to the front.
RECURSIVE try_send_session_to_session_requesters(_, _, _)
try_send_stops_at_failed_send(ss, rs, cl) ==
    IF ss = <<>>
    THEN [sessions |-> ss, session_requests |-> rs, caller |-> cl]
    ELSE LET session == back(ss) IN
         IF rs = <<>>
         THEN [sessions |-> push_front(pop_back(ss), session),
               session_requests |-> rs, caller |-> cl]
         ELSE LET sender == back(rs) IN
              IF ReceiverAlive(sender, cl)
              THEN try_send_session_to_session_requesters(
                       pop_back(ss), pop_back(rs), Deliver(cl, sender, session))
              ELSE [sessions |-> push_front(pop_back(ss), session),
                    session_requests |-> pop_back(rs), caller |-> cl]

try_send_session_to_session_requesters(ss, rs, cl) ==
    IF ss = <<>>
    THEN [sessions |-> ss, session_requests |-> rs, caller |-> cl]
    ELSE LET session == back(ss) IN
         IF rs = <<>>
         THEN [sessions |-> push_front(pop_back(ss), session),
               session_requests |-> rs, caller |-> cl]
         ELSE LET sender == back(rs) IN
              IF ReceiverAlive(sender, cl)
              THEN try_send_session_to_session_requesters(
                       pop_back(ss), pop_back(rs), Deliver(cl, sender, session))
              ELSE try_send_session_to_session_requesters(
                       push_front(pop_back(ss), session), pop_back(rs), cl)

try_send_session_keeps_copy(sender, session, ss, cl) ==
    IF ReceiverAlive(sender, cl)
    THEN [sessions |-> push_front(ss, session), caller |-> Deliver(cl, sender, session)]
    ELSE [sessions |-> push_front(ss, session), caller |-> cl]

try_send_session_drops_on_failure(sender, session, ss, cl) ==
    IF ReceiverAlive(sender, cl)
    THEN [sessions |-> ss, caller |-> Deliver(cl, sender, session)]
    ELSE [sessions |-> ss, caller |-> cl]

\* try_send_session (lines 364-374): one try_send; on failure the session goes
\* to the front of the idle store (ss is the store after the pop).
try_send_session(sender, session, ss, cl) ==
    IF ReceiverAlive(sender, cl)
    THEN [sessions |-> ss, caller |-> Deliver(cl, sender, session)]
    ELSE [sessions |-> push_front(ss, session), caller |-> cl]

\* add_session (lines 376-386)
add_session(count, ss, session) ==
    [active_session_count |-> saturating_add(count),
     sessions |-> push_front(ss, session)]

backoff_linear(tries) == tries * BackoffUnitMs

\* The backoff slept after failed attempt number `tries` (lines 230-232, 298-300)
backoff_ms(tries) == tries * tries * BackoffUnitMs

\* `Err(error) if tries > 10` (lines 228, 296)
retries_exhausted(tries) == tries > RetryLimit

\* The admission test of the creation loop (line 154)
at_ceiling_off_by_one(count) == count > max_sessions

at_ceiling(count) == count >= max_sessions

\* qldb_request_session (lines 252-282): what the transport call comes back with
StartOutcomes == {"Ok", "Recoverable", "Unrecoverable"}
\* qldb_close_session (lines 312-325): Ok or an eyre::Report
EndOutcomes == {"Ok", "Recoverable", "Unrecoverable"}

\* The sessions that exist somewhere: idle, held by a caller, on their way back
\* in a Return, or in the hands of close_session
LiveSessions ==
    Range(sessions)
    \cup {caller[c].session : c \in {d \in Callers : caller[d].state = "holding"}}
    \cup {commands[i].session : i \in {j \in 1..Len(commands) : commands[j].type = "Return"}}
    \cup (IF command_task.pc = "recv" THEN {} ELSE {command_task.session})

LiveTokens == {s.id : s \in LiveSessions}

\* The service hands out a token no live session carries.
FreshToken == CHOOSE t \in Tokens \ LiveTokens : \A u \in Tokens \ LiveTokens : t <= u

IdleCommandTask == [pc |-> "recv", session |-> NoSession, sender |-> NoSender,
                    tries |-> 0, slept_ms |-> 0]
IdleCreateTask == [pc |-> "recv", tries |-> 0, slept_ms |-> 0]
NoRoundTrip == [session |-> NoSession, clean |-> FALSE, started |-> FALSE]
NoCommand == [c |-> 0, session |-> NoSession, clean |-> FALSE, started |-> FALSE]
NoAnswer == [op |-> "none", outcome |-> "none", tries |-> 0]

\* ------------------------------------------------------------------ Init
\* The state SessionPool::new leaves (lines 65-192), for a pool of ceiling n,
\* a service that may answer with `faults` errors, recording `obs`.
InitWith(n, faults, obs) ==
    /\ max_sessions = n
    /\ now = 0
    /\ commands = <<>>
    /\ sessions = <<>>
    /\ session_requests = <<>>
    /\ active_session_count = 0
    /\ session_create_request = 0
    /\ command_task = IdleCommandTask
    /\ create_task = IdleCreateTask
    /\ caller = [c \in Callers |-> [state |-> "idle", gen |-> 0,
                                    session |-> NoSession, after_close |-> FALSE]]
    /\ closer = "Some"
    /\ closer_executor = [waker |-> "None", ready |-> FALSE]
    /\ worker_running = TRUE
    /\ fault_budget = faults
    /\ cancels = 0
    /\ close_calls = 0
    /\ observe = obs
    /\ close_fired = 0
    /\ start_calls = 0
    /\ get_calls = 0
    /\ received = [c \in Callers |-> NoSession]
    /\ round_trip = [c \in Callers |-> NoRoundTrip]
    /\ last_command = NoCommand
    /\ answered = NoAnswer

Init == \E n \in 1..MaxSessionsCeiling : InitWith(n, MaxFaults, {})

\* --------------------------------------------------------- caller domain
Bump(n, cap) == Min(n + 1, cap)

\* Demand signals queued, and those that what is in progress may still send
PotentialDemand ==
    session_create_request
    + Cardinality({i \in 1..Len(commands) : commands[i].type = "Request"})
    + (IF command_task.pc = "close_request" THEN 1 ELSE 0)
    + (IF create_task.pc = "recv" THEN 0 ELSE 1)

\* The pool is at rest: nothing queued, nothing idle, nobody waiting, both loops
\* at their recv
AtRest ==
    /\ commands = <<>>
    /\ sessions = <<>>
    /\ session_requests = <<>>
    /\ session_create_request = 0
    /\ command_task.pc = "recv"
    /\ create_task.pc = "recv"

\* SessionPool::get (lines 200-210): a fresh bounded(1) reply channel, try_send
\* of Request(sender), then the await of the reply.
get(c) ==
    /\ caller[c].state \in {"idle", "failed"}
    /\ PotentialDemand < MaxDemand
    /\ IF worker_running
       THEN /\ commands' = Append(commands, Request([c |-> c, gen |-> caller[c].gen]))
            /\ caller' = [caller EXCEPT ![c].state = "waiting",
                                        ![c].after_close = (closer = "None")]
       ELSE /\ commands' = commands
            /\ caller' = [caller EXCEPT ![c].state = "failed",
                                        ![c].after_close = (closer = "None")]
    /\ get_calls' = Bump(get_calls, GetCallsCap)
    /\ round_trip' = [round_trip EXCEPT ![c] =
            IF last_command.c = c
            THEN [session |-> last_command.session, clean |-> last_command.clean,
                  started |-> last_command.started]
            ELSE NoRoundTrip]
    /\ last_command' = NoCommand
    /\ UNCHANGED <<worker_vars, max_sessions, now, closer, cancels, close_calls,
                   observe, close_fired, received>>

\* SessionPool::give_back (lines 212-214): try_send of Return(session), result
\* ignored.
give_back(c) ==
    /\ caller[c].state = "holding"
    /\ commands' = IF worker_running
                   THEN Append(commands, Return(caller[c].session))
                   ELSE commands
    /\ caller' = [caller EXCEPT ![c].state = "idle", ![c].session = NoSession,
                                ![c].after_close = FALSE]
    /\ round_trip' = [round_trip EXCEPT ![c] = NoRoundTrip]
    /\ last_command' = IF "round_trip" \in observe
                       THEN [c |-> c, session |-> caller[c].session,
                             clean |-> AtRest, started |-> FALSE]
                       ELSE NoCommand
    /\ UNCHANGED <<worker_vars, max_sessions, now, closer, cancels, close_calls,
                   observe, close_fired, get_calls, received>>

\* A caller drops its pending get() future: the receiver of its reply channel
\* is gone (spec section 5, cancellation).
drop_get(c) ==
    /\ caller[c].state = "waiting"
    /\ cancels < MaxCancels
    /\ cancels' = cancels + 1
    /\ caller' = [caller EXCEPT ![c].state = "idle", ![c].gen = @ + 1,
                                ![c].after_close = FALSE]
    /\ round_trip' = [round_trip EXCEPT ![c] = NoRoundTrip]
    /\ last_command' = NoCommand
    /\ UNCHANGED <<worker_vars, max_sessions, now, commands, closer, close_calls,
                   observe, close_fired, get_calls, received>>

take_leaves_value(option) == option

\* Option::take on SessionPool.closer (line 195): the value moves out, None
\* stays behind.
take(option) == "None"

\* SessionPool::close (lines 194-198).  PoolEndFuture::close (lines 402-409)
\* consumes the value taken out of the Option: it sets the ready flag of that
\* value, wakes its waker (None: that value was never polled) and drops it.
\* closer_executor, the future executor.run awaits, is another value made by a
\* second PoolEndFuture::new() (lines 73-74) and is not written.
close ==
    /\ close_calls < MaxCloseCalls
    /\ close_calls' = close_calls + 1
    /\ IF closer = "Some"
       THEN /\ closer' = take(closer)
            /\ close_fired' = close_fired + 1
       ELSE UNCHANGED <<closer, close_fired>>
    /\ last_command' = NoCommand
    /\ UNCHANGED <<worker_vars, max_sessions, now, commands, caller, cancels,
                   observe, get_calls, received, round_trip>>

\* Time passes.
Tick ==
    /\ now + TickSecs <= MaxTicks * TickSecs
    /\ now' = now + TickSecs
    /\ UNCHANGED <<worker_vars, max_sessions, commands, caller, closer, cancels,
                   close_calls, observe, close_fired, get_calls, received,
                   round_trip, last_command>>

\* --------------------------------------------------------- worker domain
\* executor.run(closer_executor) (line 185) polls the future before it runs
\* any task: PoolEndFuture::poll (lines 413-420).  Ready ends the run: the
\* tasks, the command receiver and every reply sender are dropped.
executor_run_poll ==
    /\ worker_running
    /\ closer_executor.waker = "None"
    /\ IF closer_executor.ready
       THEN /\ worker_running' = FALSE
            /\ commands' = <<>>
            /\ caller' = [c \in Callers |->
                   IF caller[c].state = "waiting"
                   THEN [caller[c] EXCEPT !.state = "failed"] ELSE caller[c]]
            /\ UNCHANGED closer_executor
       ELSE /\ closer_executor' = [closer_executor EXCEPT !.waker = "Some"]
            /\ UNCHANGED <<worker_running, commands, caller>>
    /\ UNCHANGED <<max_sessions, now, sessions, session_requests,
                   active_session_count, session_create_request, command_task,
                   create_task, closer, fault_budget, cancels, close_calls,
                   observe, close_fired, start_calls, get_calls, received,
                   round_trip, last_command, answered>>

TasksRun == worker_running /\ closer_executor.waker = "Some"

\* The service answers a call: an error uses up one of the errors it may give.
Answer(outcome) ==
    IF outcome = "Ok"
    THEN fault_budget' = fault_budget
    ELSE fault_budget > 0 /\ fault_budget' = fault_budget - 1

\* The answer is seen: the operation it answers (start_session or
\* end_session), its outcome, and the attempt number it answers.
NoteAnswer(op, outcome, tries) ==
    answered' = IF "transport" \in observe
                THEN [op |-> op, outcome |-> outcome, tries |-> tries]
                ELSE answered

\* A start_session call is seen by every round trip in progress.
NoteStart ==
    /\ start_calls' = Bump(start_calls, StartCallsCap)
    /\ round_trip' = [c \in Callers |->
           IF round_trip[c].session # NoSession /\ caller[c].state = "waiting"
           THEN [round_trip[c] EXCEPT !.started = TRUE] ELSE round_trip[c]]
    /\ last_command' = IF last_command.c # 0
                       THEN [last_command EXCEPT !.started = TRUE]
                       ELSE last_command

\* The sessions this step hands to callers, as the callers see them.
NoteDeliveries(cl) ==
    received' = IF "received" \in observe
                THEN [c \in Callers |->
                         IF cl[c].state = "holding" /\ caller[c].state # "holding"
                         THEN cl[c].session ELSE received[c]]
                ELSE received

request_loop_pushes_back(sender, ss, rs, cl) ==
    IF ss = <<>>
    THEN [sessions |-> ss, session_requests |-> Append(rs, sender),
          caller |-> cl, signals |-> 1, command_task |-> IdleCommandTask]
    ELSE LET session == back(ss) IN
         IF ~is_valid(session)
         THEN [sessions |-> pop_back(ss), session_requests |-> rs, caller |-> cl,
               signals |-> 0,
               command_task |-> [pc |-> "close_request", session |-> session,
                                 sender |-> sender, tries |-> 1, slept_ms |-> 0]]
         ELSE LET sent == try_send_session(sender, session, pop_back(ss), cl) IN
              [sessions |-> sent.sessions, session_requests |-> rs,
               caller |-> sent.caller, signals |-> 0,
               command_task |-> IdleCommandTask]

\* The body of the Request handler's loop (lines 114-139) from the pop to the
\* next suspension point, on idle store ss, waiter store rs and callers cl.
request_loop(sender, ss, rs, cl) ==
    IF ss = <<>>
    THEN \* None: queue the sender, emit one demand signal
         [sessions |-> ss, session_requests |-> push_front(rs, sender),
          caller |-> cl, signals |-> 1, command_task |-> IdleCommandTask]
    ELSE LET session == back(ss) IN
         IF ~is_valid(session)
         THEN \* close_session: first end_session call in flight
              [sessions |-> pop_back(ss), session_requests |-> rs, caller |-> cl,
               signals |-> 0,
               command_task |-> [pc |-> "close_request", session |-> session,
                                 sender |-> sender, tries |-> 1, slept_ms |-> 0]]
         ELSE LET sent == try_send_session(sender, session, pop_back(ss), cl) IN
              [sessions |-> sent.sessions, session_requests |-> rs,
               caller |-> sent.caller, signals |-> 0,
               command_task |-> IdleCommandTask]

return_handler_inverted_test(session, ss, rs, cl) ==
    IF is_valid(session)
    THEN [sessions |-> ss, session_requests |-> rs, caller |-> cl, signals |-> 0,
          command_task |-> [pc |-> "close_return", session |-> session,
                            sender |-> NoSender, tries |-> 1, slept_ms |-> 0]]
    ELSE LET paired == try_send_session_to_session_requesters(
                           push_front(ss, session), rs, cl) IN
         [sessions |-> paired.sessions, session_requests |-> paired.session_requests,
          caller |-> paired.caller, signals |-> 0, command_task |-> IdleCommandTask]

\* The Return handler (lines 94-113)
return_handler(session, ss, rs, cl) ==
    IF ~is_valid(session)
    THEN [sessions |-> ss, session_requests |-> rs, caller |-> cl, signals |-> 0,
          command_task |-> [pc |-> "close_return", session |-> session,
                            sender |-> NoSender, tries |-> 1, slept_ms |-> 0]]
    ELSE LET paired == try_send_session_to_session_requesters(
                           push_front(ss, session), rs, cl) IN
         [sessions |-> paired.sessions, session_requests |-> paired.session_requests,
          caller |-> paired.caller, signals |-> 0, command_task |-> IdleCommandTask]

\* The command loop takes the next message (line 92) and handles it up to its
\* next suspension point.
command_recv ==
    /\ TasksRun
    /\ command_task.pc = "recv"
    /\ commands # <<>>
    /\ LET message == Head(commands)
           next == IF message.type = "Return"
                   THEN return_handler(message.session, sessions,
                                       session_requests, caller)
                   ELSE request_loop(message.sender, sessions,
                                     session_requests, caller)
       IN /\ commands' = Tail(commands)
          /\ sessions' = next.sessions
          /\ session_requests' = next.session_requests
          /\ caller' = next.caller
          /\ session_create_request' = session_create_request + next.signals
          /\ command_task' = next.command_task
          /\ NoteDeliveries(next.caller)
    /\ UNCHANGED <<max_sessions, now, active_session_count, create_task, closer,
                   closer_executor, worker_running, fault_budget, cancels,
                   close_calls, observe, close_fired, start_calls, get_calls,
                   round_trip, last_command, answered>>

\* close_session (lines 284-310): the response to end_session attempt number
\* command_task.tries arrives.  Ok, or an error once tries > 10, ends the loop:
\* the active count is decremented and the handler goes on (Return: next
\* message; Request: `continue`, the loop pops again).  Any other error sleeps
\* tries*tries*75 ms and calls end_session again.
command_close_response(outcome) ==
    /\ TasksRun
    /\ command_task.pc \in {"close_return", "close_request"}
    /\ Answer(outcome)
    /\ NoteAnswer("end", outcome, command_task.tries)
    /\ IF outcome = "Ok" \/ retries_exhausted(command_task.tries)
       THEN /\ active_session_count' = saturating_sub(active_session_count)
            /\ IF command_task.pc = "close_return"
               THEN /\ command_task' = IdleCommandTask
                    /\ UNCHANGED <<sessions, session_requests, caller,
                                   session_create_request, received>>
               ELSE LET next == request_loop(command_task.sender, sessions,
                                             session_requests, caller)
                    IN /\ sessions' = next.sessions
                       /\ session_requests' = next.session_requests
                       /\ caller' = next.caller
                       /\ session_create_request' =
                              session_create_request + next.signals
                       /\ command_task' = next.command_task
                       /\ NoteDeliveries(next.caller)
       ELSE /\ command_task' = [command_task EXCEPT
                   !.tries = @ + 1,
                   !.slept_ms = backoff_ms(command_task.tries)]
            /\ UNCHANGED <<active_session_count, sessions, session_requests,
                           caller, session_create_request, received>>
    /\ UNCHANGED <<max_sessions, now, commands, create_task, closer,
                   closer_executor, worker_running, cancels, close_calls,
                   observe, close_fired, start_calls, get_calls, round_trip,
                   last_command>>

\* The creation loop takes a demand signal (line 153): at the ceiling it drops
\* it, otherwise create_session makes its first start_session call.
create_recv ==
    /\ TasksRun
    /\ create_task.pc = "recv"
    /\ session_create_request > 0
    /\ session_create_request' = session_create_request - 1
    /\ IF at_ceiling(active_session_count)
       THEN UNCHANGED <<create_task, start_calls, round_trip, last_command>>
       ELSE /\ create_task' = [pc |-> "create_session", tries |-> 1, slept_ms |-> 0]
            /\ NoteStart
    /\ UNCHANGED <<max_sessions, now, commands, sessions, session_requests,
                   active_session_count, command_task, caller, closer,
                   closer_executor, worker_running, fault_budget, cancels,
                   close_calls, observe, close_fired, get_calls, received,
                   answered>>

\* create_session (lines 217-242) gets Ok(token): Session::new, then the Ok
\* branch of the creation loop (lines 159-173).
create_ok ==
    /\ TasksRun
    /\ create_task.pc = "create_session"
    /\ Answer("Ok")
    /\ NoteAnswer("start", "Ok", create_task.tries)
    /\ Tokens \ LiveTokens # {}
    /\ LET added == add_session(active_session_count, sessions,
                                SessionNew(FreshToken))
           paired == try_send_session_to_session_requesters(
                         added.sessions, session_requests, caller)
       IN /\ active_session_count' = added.active_session_count
          /\ sessions' = paired.sessions
          /\ session_requests' = paired.session_requests
          /\ caller' = paired.caller
          /\ session_create_request' =
                 IF ~at_ceiling(added.active_session_count)
                    /\ paired.session_requests # <<>>
                 THEN session_create_request + 1
                 ELSE session_create_request
          /\ NoteDeliveries(paired.caller)
    /\ create_task' = IdleCreateTask
    /\ UNCHANGED <<max_sessions, now, commands, command_task, closer,
                   closer_executor, worker_running, cancels, close_calls,
                   observe, close_fired, start_calls, get_calls, round_trip,
                   last_command>>

create_err_retries_unrecoverable(outcome) ==
    /\ TasksRun
    /\ create_task.pc = "create_session"
    /\ Answer(outcome)
    /\ NoteAnswer("start", outcome, create_task.tries)
    /\ IF retries_exhausted(create_task.tries)
       THEN /\ create_task' = [create_task EXCEPT !.pc = "err_timer"]
            /\ UNCHANGED <<start_calls, round_trip, last_command>>
       ELSE /\ create_task' = [create_task EXCEPT
                   !.tries = @ + 1,
                   !.slept_ms = backoff_ms(create_task.tries)]
            /\ NoteStart
    /\ UNCHANGED <<max_sessions, now, commands, sessions, session_requests,
                   active_session_count, session_create_request, command_task,
                   caller, closer, closer_executor, worker_running, cancels,
                   close_calls, observe, close_fired, get_calls, received>>

\* create_session gets an error: past the limit, or Unrecoverable, it returns
\* Err and the loop's Err branch starts its 100 ms Timer; a Recoverable error
\* sleeps tries*tries*75 ms and calls start_session again.
create_err(outcome) ==
    /\ TasksRun
    /\ create_task.pc = "create_session"
    /\ Answer(outcome)
    /\ NoteAnswer("start", outcome, create_task.tries)
    /\ IF retries_exhausted(create_task.tries) \/ outcome = "Unrecoverable"
       THEN /\ create_task' = [create_task EXCEPT !.pc = "err_timer"]
            /\ UNCHANGED <<start_calls, round_trip, last_command>>
       ELSE /\ create_task' = [create_task EXCEPT
                   !.tries = @ + 1,
                   !.slept_ms = backoff_ms(create_task.tries)]
            /\ NoteStart
    /\ UNCHANGED <<max_sessions, now, commands, sessions, session_requests,
                   active_session_count, session_create_request, command_task,
                   caller, closer, closer_executor, worker_running, cancels,
                   close_calls, observe, close_fired, get_calls, received>>

\* The Err branch of the creation loop (lines 174-178): after the Timer it
\* sends a demand signal to itself.
create_err_timer ==
    /\ TasksRun
    /\ create_task.pc = "err_timer"
    /\ session_create_request' = session_create_request + 1
    /\ create_task' = IdleCreateTask
    /\ UNCHANGED <<max_sessions, now, commands, sessions, session_requests,
                   active_session_count, command_task, caller, closer,
                   closer_executor, worker_running, fault_budget, cancels,
                   close_calls, observe, close_fired, start_calls, get_calls,
                   received, round_trip, last_command, answered>>

\* ------------------------------------------------------------------ Next
Next ==
    \/ \E c \in Callers : get(c)
    \/ \E c \in Callers : give_back(c)
    \/ \E c \in Callers : drop_get(c)
    \/ close
    \/ Tick
    \/ executor_run_poll
    \/ command_recv
    \/ \E outcome \in EndOutcomes : command_close_response(outcome)
    \/ create_recv
    \/ create_ok
    \/ \E outcome \in {"Recoverable", "Unrecoverable"} : create_err(outcome)
    \/ create_err_timer

Spec == Init /\ [][Next]_vars

\* ---------------------------------------------------- fair scheduling
\* A pool of ceiling 1 whose callers keep their get() futures, with a service
\* that fails at most once.  The executor runs a task that is ready, the
\* service and the timers answer, and a caller that holds a session gives it
\* back.
InitFair == InitWith(1, 1, {})

NextFair ==
    \/ \E c \in Callers : get(c)
    \/ \E c \in Callers : give_back(c)
    \/ close
    \/ Tick
    \/ executor_run_poll
    \/ command_recv
    \/ \E outcome \in EndOutcomes : command_close_response(outcome)
    \/ create_recv
    \/ create_ok
    \/ \E outcome \in {"Recoverable", "Unrecoverable"} : create_err(outcome)
    \/ create_err_timer

Fairness ==
    /\ WF_vars(executor_run_poll)
    /\ WF_vars(command_recv)
    /\ WF_vars(\E outcome \in EndOutcomes : command_close_response(outcome))
    /\ WF_vars(create_recv)
    /\ WF_vars(create_ok \/ \E outcome \in {"Recoverable", "Unrecoverable"} : create_err(outcome))
    /\ WF_vars(create_err_timer)
    /\ \A c \in Callers : WF_vars(give_back(c))

\* The pool of Spec, with the round trips of its callers recorded.
InitRoundTrip == \E n \in 1..MaxSessionsCeiling : InitWith(n, MaxFaults, {"round_trip"})

SpecRoundTrip == InitRoundTrip /\ [][Next]_vars

\* The scenario of two get() calls on a pool of ceiling 1 whose service never
\* fails; what each caller received is recorded.
InitTwoGets == InitWith(1, 0, {"received"})

NextTwoGets ==
    \/ \E c \in Callers : get_calls < 2 /\ get(c)
    \/ \E c \in Callers : give_back(c)
    \/ Tick
    \/ executor_run_poll
    \/ command_recv
    \/ command_close_response("Ok")
    \/ create_recv
    \/ create_ok

SpecTwoGets == InitTwoGets /\ [][NextTwoGets]_vars

\* One caller on a pool of ceiling 1 whose service may fail often enough to
\* use up the retries of an operation; the transport answers are recorded.
InitRetry == InitWith(1, RetryLimit + 2, {"transport"})

NextRetry ==
    \/ get(1)
    \/ give_back(1)
    \/ Tick
    \/ executor_run_poll
    \/ command_recv
    \/ \E outcome \in EndOutcomes : command_close_response(outcome)
    \/ create_recv
    \/ create_ok
    \/ \E outcome \in {"Recoverable", "Unrecoverable"} : create_err(outcome)
    \/ create_err_timer

SpecRetry == InitRetry /\ [][NextRetry]_vars

FairSpec == InitFair /\ [][NextFair]_vars /\ Fairness

\* The retry scenario under fair scheduling
FairSpecRetry == InitRetry /\ [][NextRetry]_vars /\ Fairness

\* ================================================================ claims
Holders == {c \in Callers : caller[c].state = "holding"}

\* Every place a session can be, one entry per occurrence
Places ==
    sessions
    \o [i \in 1..Cardinality(Holders) |->
          caller[CHOOSE c \in Holders :
                   Cardinality({d \in Holders : d < c}) = i - 1].session]
    \o SelectSeq([i \in 1..Len(commands) |-> commands[i].session],
                 LAMBDA s : s # NoSession)
    \o (IF command_task.pc = "recv" THEN <<>> ELSE <<command_task.session>>)

\* C1: with ceiling max_sessions, the number of live sessions (idle or checked
\* out, and also those on their way back or being evicted) and the active
\* count never exceed max_sessions and never go below 0; the active count is
\* the number of sessions that exist.
C1_LiveWithinCeiling ==
    /\ active_session_count >= 0
    /\ active_session_count <= max_sessions
    /\ Len(sessions) + Cardinality(Holders) <= max_sessions
    /\ Len(Places) <= max_sessions
    /\ Len(Places) = active_session_count

\* C1 witness: the pool is full, with a session checked out and one idle, and a
\* demand signal waits to be looked at.
C1_Witness ==
    /\ max_sessions = 2
    /\ active_session_count = max_sessions
    /\ Holders # {}
    /\ sessions # <<>>
    /\ session_create_request > 0

\* C2: a live session is in exactly one place: once in the idle store, or held
\* by one caller, or on its way back in one Return, or being evicted.
C2_OnePlace ==
    \A i, j \in 1..Len(Places) : i # j => Places[i] # Places[j]

\* C2 witness: after a pairing run that met a dropped requester, one session
\* is idle and another is held.
C2_Witness ==
    /\ cancels > 0
    /\ sessions # <<>>
    /\ Holders # {}
    /\ session_requests = <<>>
    /\ command_task.pc = "recv"

\* The age of a session at clock value t is below the 600 s lifetime.
Younger(session, t) == t - session.created_on_instant < SessionLifetimeSecs

\* This step is the command loop starting on a Request.
TakesRequest ==
    /\ command_task.pc = "recv"
    /\ commands # <<>>
    /\ Head(commands).type = "Request"
    /\ commands' = Tail(commands)

\* This step is close_session returning (not one of its retries).
EvictionEnds ==
    /\ command_task.pc \in {"close_return", "close_request"}
    /\ command_task' # command_task
    /\ ~(/\ command_task'.session = command_task.session
         /\ command_task'.tries = command_task.tries + 1)

\* C3: a session handed to a requester is younger than 600 s at that moment, on
\* every delivery path; when the Request handler meets an expired session at
\* the serving end of the idle store it hands nothing over in that step and
\* evicts that session, and the eviction ends with the active count one lower.
C3_Step ==
    /\ \A c \in Callers :
          caller[c].state # "holding" /\ caller'[c].state = "holding"
             => Younger(caller'[c].session, now')
    /\ ( /\ TakesRequest \/ (EvictionEnds /\ command_task.pc = "close_request")
         /\ sessions # <<>>
         /\ ~Younger(back(sessions), now) )
       => /\ caller' = caller
          /\ command_task'.pc = "close_request"
          /\ command_task'.session = back(sessions)
          /\ sessions' = pop_back(sessions)
    /\ EvictionEnds => active_session_count' = active_session_count - 1

C3_NeverDeliversExpired == [][C3_Step]_vars

\* C3 witness: the service never failed, two sessions were created, the clock
\* has passed the lifetime of the first, which is evicted and gone, and a
\* caller holds the second.
C3_Witness ==
    /\ now >= SessionLifetimeSecs
    /\ fault_budget = MaxFaults
    /\ start_calls = 2
    /\ create_task.pc = "recv"
    /\ active_session_count = 1
    /\ command_task.pc = "recv"
    /\ \E c \in Holders : caller[c].session.created_on_instant > 0

\* C4: under fair scheduling, with a service that ends up succeeding and
\* callers that give back what they hold, a get() that keeps waiting is served
\* in the end, unless close() is called.
C4_NoLeakedDemand ==
    \A c \in Callers :
        (caller[c].state = "waiting")
            ~> (caller[c].state # "waiting" \/ closer = "None")

\* C5: a get() called after close() does not return a session.
C5_GetAfterCloseFails ==
    \A c \in Callers : caller[c].after_close => caller[c].state # "holding"

\* C6: once close() has taken the closer, the run loop of the worker comes to
\* see its future ready and ends.
C6_CloseStopsWorker == (closer = "None") ~> ~worker_running

\* C7: however often close() is called, the closer is taken and fired by the
\* first call, once; a later call changes nothing of the pool.
C7_Step ==
    /\ close_fired' <= 1
    /\ close_calls' > 0 => closer' = "None" /\ close_fired' = 1
    /\ close_calls' = 0 => closer' = "Some" /\ close_fired' = 0
    /\ (close_calls' # close_calls /\ closer = "None")
          => UNCHANGED <<max_sessions, now, commands, sessions, session_requests,
                         active_session_count, session_create_request,
                         command_task, create_task, caller, closer,
                         closer_executor, worker_running, close_fired>>

C7_CloseIdempotent == [][C7_Step]_vars

\* C7 witness: close() was called twice and fired once.
C7_Witness == close_calls = 2 /\ close_fired = 1 /\ closer = "None"

\* The round trip of caller c came back: c gave back a session that is still
\* valid, called get() with no caller command in between, and holds a session.
RoundTripDone(c) ==
    /\ caller[c].state = "holding"
    /\ round_trip[c].session # NoSession
    /\ Younger(round_trip[c].session, now)

\* C8 as stated: from any pool state, the round trip returns the session given
\* back.
C8_RoundTripFromAnyState ==
    \A c \in Callers :
        RoundTripDone(c) => caller[c].session.id = round_trip[c].session.id

\* C8 amended: the round trip returns the session given back, with no
\* start_session call, when it starts with the pool at rest (no command
\* queued, idle store and waiter store empty, no demand signal pending, both
\* loops at their recv).
C8_RoundTripFromRest ==
    \A c \in Callers :
        RoundTripDone(c) /\ round_trip[c].clean
            => /\ caller[c].session = round_trip[c].session
               /\ ~round_trip[c].started

\* C8 witness: a round trip that started at rest came back, after time passed.
C8_Witness ==
    \E c \in Callers :
        /\ RoundTripDone(c)
        /\ round_trip[c].clean
        /\ now > 0
        /\ caller[c].session = round_trip[c].session

\* This step is the command loop starting on a Return.
TakesReturn ==
    /\ command_task.pc = "recv"
    /\ commands # <<>>
    /\ Head(commands).type = "Return"
    /\ commands' = Tail(commands)

NewHolders == {c \in Callers : caller[c].state = "waiting" /\ caller'[c].state = "holding"}

\* No session made so far has reached its lifetime.
AllStillValid ==
    \A s \in LiveSessions \cup {received[c] : c \in Callers} : Younger(s, now)

C9_Inv ==
    /\ start_calls <= 1
    /\ Cardinality(Holders) <= 1
    /\ \A c \in Holders : caller[c].session = received[c]
    /\ \A c, d \in Callers :
          received[c] # NoSession /\ received[d] # NoSession
             => received[c] = received[d]
    /\ (\E c \in Callers : received[c] # NoSession) => start_calls = 1

\* C9: ceiling 1, two get() calls, a service that succeeds, and the session
\* still valid.  One start_session call is made and one session created; the
\* creation serves exactly one get(), the requester queued first; no two
\* callers hold a session at once; the Return of the session hands that same
\* session to the requester still queued; all sessions received are that one
\* session.
C9_Step ==
    /\ AllStillValid' => C9_Inv'
    /\ (create_task.pc = "create_session" /\ create_task'.pc = "recv"
        /\ session_requests # <<>>)
          => /\ NewHolders = {back(session_requests).c}
             /\ session_requests' = pop_back(session_requests)
    /\ (TakesReturn /\ Younger(Head(commands).session, now)
        /\ session_requests # <<>>)
          => /\ NewHolders = {back(session_requests).c}
             /\ caller'[back(session_requests).c].session = Head(commands).session

C9_TwoGetsOneSession == [][C9_Step]_vars

\* C9 witness: both get() calls have resolved, the second after the first
\* caller gave the session back while the second was queued.
C9_Witness ==
    /\ received[1] # NoSession
    /\ received[2] # NoSession
    /\ Holders # {}
    /\ now > 0
    /\ AllStillValid

\* C10: one retry-governed operation calls the transport at most 10 times
\* (tries is the number of calls made so far by the operation in progress).
C10_AtMostTenCalls ==
    /\ create_task.tries <= RetryLimit
    /\ command_task.tries <= RetryLimit

\* The delays of spec section 4.5 between attempt n and attempt n+1, n = 1..9
BackoffTable == <<75, 300, 675, 1200, 1875, 2700, 3675, 4800, 6075>>

\* This step is create_session returning Ok.
CreationSucceeds == create_task.pc = "create_session" /\ create_task'.pc = "recv"

C11_Step ==
    /\ (create_task'.pc = "create_session" /\ create_task'.tries = 1)
          => create_task'.slept_ms = 0
    /\ (create_task'.pc = "create_session" /\ create_task'.tries \in 2..10)
          => /\ create_task'.slept_ms = BackoffTable[create_task'.tries - 1]
             /\ create_task'.slept_ms =
                    (create_task'.tries - 1) * (create_task'.tries - 1) * 75
    /\ (CreationSucceeds /\ create_task.tries <= 10)
          => /\ answered'.outcome = "Ok"
             /\ active_session_count' = active_session_count + 1
             /\ \E s \in LiveSessions' \ LiveSessions :
                    s.created_on_instant = now

\* C11: the first start_session call of a creation is made with no delay;
\* attempt n+1 is made n*n*75 ms after the recoverable failure of attempt n,
\* for n = 1..9 (75, 300, ..., 6075); an Ok answer to any attempt up to the
\* 10th gives a created session.
C11_BackoffAndTenthAttempt == [][C11_Step]_vars

\* C11 witness: start_session answered Ok on attempt 10, after nine
\* recoverable failures, and the caller holds the session created.
C11_Witness ==
    /\ answered = [op |-> "start", outcome |-> "Ok", tries |-> 10]
    /\ fault_budget = RetryLimit + 2 - 9
    /\ active_session_count = 1
    /\ Holders # {}

\* This step is create_session receiving an error of the given class.
StartFails(class) ==
    /\ create_task.pc = "create_session"
    /\ create_task' # create_task
    /\ fault_budget' < fault_budget
    /\ answered'.op = "start"
    /\ answered'.outcome = class

C12_Step ==
    /\ StartFails("Unrecoverable")
          => /\ create_task'.pc = "err_timer"
             /\ create_task'.tries = create_task.tries
             /\ create_task'.slept_ms = create_task.slept_ms
             /\ start_calls' = start_calls
             /\ active_session_count' = active_session_count
             /\ sessions' = sessions
    /\ (StartFails("Unrecoverable") /\ create_task.tries = 1)
          => create_task'.tries = 1 /\ create_task'.slept_ms = 0

\* C12: an unrecoverable error from start_session ends create_session at
\* once: no further start_session call and no backoff in that creation, and
\* no session; on the first attempt that is one call and zero delay.
C12_UnrecoverableShortCircuit == [][C12_Step]_vars

\* C12 witness: the first attempt of a creation was answered with an
\* unrecoverable error and the creation has failed.
C12_Witness ==
    /\ answered = [op |-> "start", outcome |-> "Unrecoverable", tries |-> 1]
    /\ create_task.pc = "err_timer"
    /\ create_task.tries = 1
    /\ create_task.slept_ms = 0

\* The place of session x in idle store q (1 is the entry end, Len(q) the
\* serving end)
PlaceIn(q, x) == CHOOSE i \in 1..Len(q) : q[i] = x

\* This step puts a session into the idle store while no requester waits:
\* a valid Return is handled, or a creation succeeds.
EntersIdle ==
    /\ session_requests = <<>>
    /\ \/ TakesReturn /\ Younger(Head(commands).session, now)
       \/ CreationSucceeds

\* C13: the idle store is first in, first out.  When a session enters it while
\* others are idle and no requester waits, the session a Request would be
\* served next (the one at the serving end) is one of those that were idle
\* before, and the sessions that were idle keep their relative order.
C13_Step ==
    (EntersIdle /\ sessions # <<>>)
       => /\ back(sessions') \in Range(sessions)
          /\ \A i, j \in 1..Len(sessions) :
                 i < j => PlaceIn(sessions', sessions[i]) < PlaceIn(sessions', sessions[j])

C13_IdleStoreFifo == [][C13_Step]_vars

\* C14: when create_session has failed, the creation loop goes back to its
\* recv without sending a demand signal.
C14_Step ==
    (create_task.pc = "err_timer" /\ create_task'.pc = "recv")
       => session_create_request' = session_create_request

C14_FailedRoundDropsSignal == [][C14_Step]_vars

\* The Request handler comes to try_send_session with a sender whose
\* receiver is gone: on taking the Request, or when the eviction it waited
\* for ends.
RequestMeetsDead ==
    /\ sessions # <<>>
    /\ Younger(back(sessions), now)
    /\ \/ TakesRequest /\ ~ReceiverAlive(Head(commands).sender, caller)
       \/ /\ EvictionEnds
          /\ command_task.pc = "close_request"
          /\ ~ReceiverAlive(command_task.sender, caller)

\* A pairing run starts (after a valid Return or a creation) and the sender it
\* pops first has lost its receiver.
DrainMeetsDead ==
    /\ \/ TakesReturn /\ Younger(Head(commands).session, now)
       \/ CreationSucceeds
    /\ session_requests # <<>>
    /\ ~ReceiverAlive(back(session_requests), caller)

\* The sessions in the idle store or just handed to a requester after the step
IdleOrDelivered ==
    Range(sessions') \cup {caller'[c].session : c \in NewHolders}

\* C15: a delivery that fails loses no session.  In the Request handler the
\* session goes back to the entry end of the idle store, nothing is handed
\* over and nothing is closed; in a pairing run every session of the store
\* (the one entering included) is idle or delivered to a live requester at the
\* end, and idle if no live requester is left; the active count changes only
\* by the creation or the eviction that the step completes.
C15_Step ==
    /\ RequestMeetsDead
          => /\ sessions' = push_front(pop_back(sessions), back(sessions))
             /\ caller' = caller
             /\ command_task'.pc = "recv"
             /\ active_session_count' =
                    active_session_count - (IF EvictionEnds THEN 1 ELSE 0)
    /\ DrainMeetsDead
          => /\ Range(sessions) \subseteq IdleOrDelivered
             /\ TakesReturn => Head(commands).session \in IdleOrDelivered
             /\ Cardinality(IdleOrDelivered) = Len(sessions) + 1
             /\ (\A i \in 1..Len(session_requests) :
                    ~ReceiverAlive(session_requests[i], caller))
                   => /\ Len(sessions') = Len(sessions) + 1
                      /\ session_requests' = <<>>
                      /\ caller' = caller
             /\ TakesReturn => command_task'.pc = "recv"
             /\ CreationSucceeds => command_task' = command_task
             /\ active_session_count' =
                    active_session_count + (IF CreationSucceeds THEN 1 ELSE 0)

C15_FailedDeliveryKeepsSession == [][C15_Step]_vars

\* C15 witness: the only get() ever made was dropped while it waited; the
\* session created for it met the dead sender in the pairing run and is idle,
\* counted, and nothing is left of the request.
C15_Witness ==
    /\ get_calls = 1
    /\ cancels = 1
    /\ start_calls = 1
    /\ active_session_count = 1
    /\ Len(sessions) = 1
    /\ session_requests = <<>>
    /\ commands = <<>>
    /\ command_task.pc = "recv"
    /\ create_task.pc = "recv"

\* C16: the waiter store is first in, first out.  A requester that is queued
\* takes the place farthest from the serving end, behind all those queued
\* before it; the store otherwise only loses requesters, from the serving end
\* on; and when a step hands a session to requester c while a live requester
\* d stays queued in the waiter store, c was in the waiter store too, nearer
\* to the serving end than d (queued before d).
C16_Step ==
    /\ \/ session_requests' = session_requests
       \/ /\ Len(session_requests') = Len(session_requests) + 1
          /\ Tail(session_requests') = session_requests
          /\ TakesRequest \/ EvictionEnds
       \/ \E k \in 0..(Len(session_requests) - 1) :
              session_requests' = SubSeq(session_requests, 1, k)
    /\ \A c \in NewHolders :
          \A j \in 1..Len(session_requests) :
              LET d == session_requests[j] IN
              ( /\ ReceiverAlive(d, caller)
                /\ d.c # c
                /\ caller'[d.c].state = "waiting" )
                  => \E i \in 1..Len(session_requests) :
                        /\ session_requests[i] = [c |-> c, gen |-> caller[c].gen]
                        /\ i > j

C16_WaitersServedInOrder == [][C16_Step]_vars

\* C16 witness: two requesters were queued with a signal each; the first
\* creation served one of them and, the other still waiting below the
\* ceiling, sent a further signal.
C16_Witness ==
    /\ max_sessions = 2
    /\ cancels = 0
    /\ fault_budget = MaxFaults
    /\ start_calls = 1
    /\ active_session_count = 1
    /\ session_create_request = 2
    /\ Cardinality(Holders) = 1
    /\ Len(session_requests) = 1
    /\ ReceiverAlive(session_requests[1], caller)
    /\ create_task.pc = "recv"

\* close_session is at work on the session with token t.
Evicting(t) == command_task.pc # "recv" /\ command_task.session.id = t

C17_Step ==
    /\ EvictionEnds
          => /\ active_session_count' = active_session_count - 1
             /\ command_task.session \notin LiveSessions'
    /\ command_task'.pc # "recv"
          => /\ command_task'.session \notin Range(sessions')
             /\ \A c \in Callers :
                    caller'[c].state = "holding"
                       => caller'[c].session # command_task'.session
    /\ \A s \in LiveSessions' \ LiveSessions :
          CreationSucceeds /\ s.created_on_instant = now

\* C17: every eviction ends, whether end_session succeeds or fails on every
\* attempt, and ends with the active count one lower; the session being
\* evicted is neither idle nor held, is nowhere once the eviction has ended,
\* and no session comes into the pool other than newly created.
C17_EvictionEndsAndDecrements ==
    /\ [][C17_Step]_vars
    /\ \A t \in Tokens : Evicting(t) ~> ~Evicting(t)

\* C17 witness: an eviction has ended after end_session failed on every
\* attempt, and the pool counts no session.
C17_Witness ==
    /\ answered.op = "end"
    /\ answered.outcome # "Ok"
    /\ answered.tries = RetryLimit + 1
    /\ command_task.pc = "recv"
    /\ active_session_count = 0
    /\ sessions = <<>>
    /\ Holders = {}

\* This step is close_session receiving an error of the given class.
EndFails(class) ==
    /\ command_task.pc \in {"close_return", "close_request"}
    /\ command_task' # command_task
    /\ fault_budget' < fault_budget
    /\ answered'.op = "end"
    /\ answered'.outcome = class

\* C18: an unrecoverable error from end_session ends close_session at once,
\* with no further end_session call and no backoff.
C18_Step == EndFails("Unrecoverable") => EvictionEnds

C18_CloseShortCircuits == [][C18_Step]_vars

\* C19: a demand signal consumed while the waiter store is empty leads to no
\* start_session call.
C19_Step ==
    ( /\ create_task.pc = "recv"
      /\ session_create_request' = session_create_request - 1
      /\ session_requests = <<>> )
       => create_task'.pc = "recv" /\ start_calls' = start_calls

C19_RedundantSignalIgnored == [][C19_Step]_vars

\* C20: while the command loop is not inside a Request or Return handler
\* (the post-creation step of the creation loop is one step), the idle store
\* and the waiter store are not both non-empty.
C20_NoWaiterWhileIdle ==
    command_task.pc = "recv" => (sessions = <<>> \/ session_requests = <<>>)

\* C20 witness: after the pairing run of a creation, on a full pool of
\* ceiling 1, one caller holds the session and the other is queued with
\* nothing idle, both loops at their recv.
C20_Witness ==
    /\ max_sessions = 1
    /\ active_session_count = 1
    /\ Cardinality(Holders) = 1
    /\ sessions = <<>>
    /\ Len(session_requests) = 1
    /\ ReceiverAlive(session_requests[1], caller)
    /\ session_create_request = 0
    /\ commands = <<>>
    /\ command_task.pc = "recv"
    /\ create_task.pc = "recv"

====
